---- MODULE Spec2Model ----
(***************************************************************************)
(* Model of ffmpeg-overlay-text.py: the caption command-file parser        *)
(* (parse_cmd_file), the drawtext filter builder (make_drawtext_string,    *)
(* make_drawtext_array, make_drawtext_array_string) and the command        *)
(* assembly (make_full_cmd_arr), driven in the order main() calls them.    *)
(*                                                                         *)
(* A Python str is a sequence of one-character strings.  None is the empty *)
(* tuple and a present value v is the one-element tuple <<v>>.  A raised   *)
(* exception is a result record with ok = FALSE.                           *)
(***************************************************************************)
EXTENDS Integers, Sequences, FiniteSets, TLC

VARIABLES file, idx, subtitles, pc, input_commands_arr, err, call, cmd_arr, drawtext_arr

vars == <<file, idx, subtitles, pc, input_commands_arr, err, call, cmd_arr, drawtext_arr>>

----------------------------------------------------------------------------
(* Bounds *)

MaxLines == 3

----------------------------------------------------------------------------
(* Python values *)

None == << >>

Some(v) == <<v>>

BOTTOM_CENTER == 1

TOP_CENTER == 2

----------------------------------------------------------------------------
(* str methods used by the program *)

Whitespace == {" ", "\t", "\n", "\r"}

DigitChars == <<"0","1","2","3","4","5","6","7","8","9">>

LowerChars == <<"a","b","c","d","e","f","g","h","i","j","k","l","m","n","o","p","q","r","s","t","u","v","w","x","y","z">>

UpperChars == <<"A","B","C","D","E","F","G","H","I","J","K","L","M","N","O","P","Q","R","S","T","U","V","W","X","Y","Z">>

Range(s) == {s[i] : i \in DOMAIN s}

Min(S) == CHOOSE x \in S : \A y \in S : x <= y

Max(S) == CHOOSE x \in S : \A y \in S : x >= y

(* s[a:b] for 0 <= a, 0 <= b <= len(s) *)
Slice(s, a, b) == SubSeq(s, a + 1, b)

(* s.strip() *)
Strip(s) ==
  LET keep == {i \in DOMAIN s : s[i] \notin Whitespace}
  IN IF keep = {} THEN << >> ELSE SubSeq(s, Min(keep), Max(keep))

(* s.find(c), 0-based, -1 when c does not occur *)
Find(s, c) ==
  LET at == {i \in DOMAIN s : s[i] = c}
  IN IF at = {} THEN -1 ELSE Min(at) - 1

(* s.rfind(c), 0-based, -1 when c does not occur *)
RFind(s, c) ==
  LET at == {i \in DOMAIN s : s[i] = c}
  IN IF at = {} THEN -1 ELSE Max(at) - 1

(* s.startswith(c) for a one-character c *)
StartsWith(s, c) == Len(s) > 0 /\ s[1] = c

(* s.count(c) for a one-character c *)
Count(s, c) == Cardinality({i \in DOMAIN s : s[i] = c})

RECURSIVE Split(_, _)
(* s.split(c) for a one-character c *)
Split(s, c) ==
  LET i == Find(s, c)
  IN IF i = -1 THEN <<s>>
     ELSE <<Slice(s, 0, i)>> \o Split(Slice(s, i + 1, Len(s)), c)

UpperChar(c) ==
  IF \E i \in DOMAIN LowerChars : LowerChars[i] = c
  THEN UpperChars[CHOOSE i \in DOMAIN LowerChars : LowerChars[i] = c]
  ELSE c

(* s.upper() *)
Upper(s) == [i \in DOMAIN s |-> UpperChar(s[i])]

DigitVal(c) == (CHOOSE i \in DOMAIN DigitChars : DigitChars[i] = c) - 1

RECURSIVE DigitsVal(_)
DigitsVal(ds) ==
  IF ds = << >> THEN 0
  ELSE 10 * DigitsVal(SubSeq(ds, 1, Len(ds) - 1)) + DigitVal(ds[Len(ds)])

(* int(s): surrounding whitespace, an optional sign, decimal digits with    *)
(* single underscores between digits; anything else raises ValueError      *)
ParseInt(s) ==
  LET t == Strip(s)
      signed == Len(t) > 0 /\ t[1] \in {"+", "-"}
      body == IF signed THEN Tail(t) ELSE t
      wellFormed ==
        /\ Len(body) > 0
        /\ \A i \in DOMAIN body : body[i] \in Range(DigitChars) \cup {"_"}
        /\ body[1] # "_"
        /\ body[Len(body)] # "_"
        /\ \A i \in 1..(Len(body) - 1) : ~(body[i] = "_" /\ body[i + 1] = "_")
      digits == SelectSeq(body, LAMBDA c : c # "_")
      magnitude == DigitsVal(digits)
  IN IF ~wellFormed THEN [ok |-> FALSE, val |-> 0]
     ELSE [ok |-> TRUE, val |-> IF signed /\ t[1] = "-" THEN 0 - magnitude ELSE magnitude]

RECURSIVE NatToStr(_)
NatToStr(n) ==
  IF n < 10 THEN <<DigitChars[n + 1]>>
  ELSE NatToStr(n \div 10) \o <<DigitChars[(n % 10) + 1]>>

(* '%d' % n *)
FormatD(n) == IF n < 0 THEN <<"-">> \o NatToStr(0 - n) ELSE NatToStr(n)

RECURSIVE Join(_, _)
(* sep.join(arr) *)
Join(sep, arr) ==
  IF arr = << >> THEN << >>
  ELSE IF Len(arr) = 1 THEN arr[1]
  ELSE arr[1] \o sep \o Join(sep, Tail(arr))

----------------------------------------------------------------------------
(* make_drawtext_string *)

fontfile == <<"f","o","n","t","f","i","l","e","=","/","S","y","s","t","e","m","/","L","i","b","r","a","r","y","/","F","o","n","t","s","/","S","u","p","p","l","e","m","e","n","t","a","l","/","V","e","r","d","a","n","a",".","t","t","f">>

bottom_center == <<"x","=","(","w","-","t","e","x","t","_","w",")","/","2",":","y","=","h","-","t","h","-","4","0">>

top_center == <<"x","=","(","w","-","t","e","x","t","_","w",")","/","2",":","y","=","4","0">>

box == <<"b","o","x","=","1",":","b","o","x","c","o","l","o","r","=","b","l","a","c","k","@","0",".","5",":","b","o","x","b","o","r","d","e","r","w","=","5">>

(* 'enable=\'between(t,%d,%d)\'' % (start_sec, end_sec) *)
enable_period(start_sec, end_sec) ==
  <<"e","n","a","b","l","e","=","'","b","e","t","w","e","e","n","(","t",",">> \o FormatD(start_sec) \o <<",">> \o FormatD(end_sec) \o <<")","'">>

Raise(e) == [ok |-> FALSE, val |-> e]

Return(v) == [ok |-> TRUE, val |-> v]

pos_str_swapped(position) ==
  IF position = BOTTOM_CENTER THEN top_center ELSE bottom_center

(* lines 49-52, for a position that is one of the two *)
pos_str(position) ==
  IF position = BOTTOM_CENTER THEN bottom_center ELSE top_center

make_drawtext_string(msg, color, size, position, start_sec, end_sec) ==
  IF (start_sec = None) # (end_sec = None)
  THEN Raise("TypeError")
  ELSE IF position # BOTTOM_CENTER /\ position # TOP_CENTER
  THEN Raise("Unknown position")
  ELSE
    LET drawtext == <<"d","r","a","w","t","e","x","t","=","f","o","n","t","f","i","l","e","=">> \o fontfile \o <<":","t","e","x","t","=","'">> \o msg
                    \o <<"'",":","f","o","n","t","c","o","l","o","r","=">> \o color \o <<":","f","o","n","t","s","i","z","e","=">> \o FormatD(size)
                    \o <<":">> \o box \o <<":">> \o pos_str(position)
    IN IF start_sec # None /\ end_sec # None
       THEN Return(drawtext \o <<":">> \o enable_period(start_sec[1], end_sec[1]))
       ELSE Return(drawtext)

----------------------------------------------------------------------------
(* make_drawtext_array, make_drawtext_array_string *)

stage(el) ==
  make_drawtext_string(el.msg, el.color, el.size, el.position,
                       el.start_sec, el.end_sec)

make_drawtext_array_reversed(drawtext_args) ==
  IF Len(drawtext_args) = 0
  THEN Raise("No arguments passed")
  ELSE Return([i \in DOMAIN drawtext_args |->
                 stage(drawtext_args[Len(drawtext_args) + 1 - i]).val])

make_drawtext_array_unchecked(drawtext_args) ==
  Return([i \in DOMAIN drawtext_args |-> stage(drawtext_args[i]).val])

make_drawtext_array(drawtext_args) ==
  IF Len(drawtext_args) = 0
  THEN Raise("No arguments passed")
  ELSE IF \E i \in DOMAIN drawtext_args : ~stage(drawtext_args[i]).ok
  THEN Raise(stage(drawtext_args[
         Min({i \in DOMAIN drawtext_args : ~stage(drawtext_args[i]).ok})]).val)
  ELSE Return([i \in DOMAIN drawtext_args |-> stage(drawtext_args[i]).val])

make_drawtext_array_string(drawtext_args) ==
  LET arr == make_drawtext_array(drawtext_args)
  IN IF ~arr.ok THEN arr ELSE Return(Join(<<",">>, arr.val))

----------------------------------------------------------------------------
(* make_full_cmd_arr *)

tool_always_overwrites(output_filename, overwrite_outputfile) ==
  (IF output_filename = None THEN <<<<"f","f","p","l","a","y">>>> ELSE <<<<"f","f","m","p","e","g">>>>)
    \o (IF overwrite_outputfile THEN <<<<"-","y">>>> ELSE << >>)

(* lines 89-94 *)
tool(output_filename, overwrite_outputfile) ==
  IF output_filename = None
  THEN <<<<"f","f","p","l","a","y">>>>
  ELSE <<<<"f","f","m","p","e","g">>>> \o (IF overwrite_outputfile THEN <<<<"-","y">>>> ELSE << >>)

make_full_cmd_arr(input_filename, output_filename, drawtext_args, overwrite_outputfile) ==
  LET head == tool(output_filename, overwrite_outputfile)
      filter == make_drawtext_array_string(drawtext_args)
      tail == IF output_filename # None
              THEN <<<<"-","c","o","d","e","c",":","a">>, <<"c","o","p","y">>, output_filename[1]>>
              ELSE << >>
  IN IF ~filter.ok THEN filter
     ELSE Return(head \o <<<<"-","i">>, input_filename, <<"-","v","f">>, <<"\"">> \o filter.val \o <<"\"">>>> \o tail)

----------------------------------------------------------------------------
(* parse_cmd_file: the body of the loop, for one line of the file *)

first_quote_index_first_seen(line) ==
  IF Find(line, "'") # -1 /\ Find(line, "\"") # -1
  THEN Min({Find(line, "'"), Find(line, "\"")})
  ELSE IF Find(line, "'") # -1 THEN Find(line, "'") ELSE Find(line, "\"")

first_quote_index(line) ==
  IF Find(line, "'") # -1 THEN Find(line, "'") ELSE Find(line, "\"")

last_quote_index(line) ==
  IF RFind(line, "'") # -1 THEN RFind(line, "'") ELSE RFind(line, "\"")

ParseError(rule, line) == [kind |-> "error", rule |-> rule, line |-> line]

parse_fields_position_first(line, msg, post_msg) ==
  LET parts == Split(post_msg, ":")
      color == Strip(parts[1])
      size == ParseInt(Strip(parts[2]))
      position == Upper(Strip(parts[3]))
      time_range == Strip(parts[4])
      bounds == Split(time_range, "-")
      start_sec == ParseInt(bounds[1])
      end_sec == ParseInt(bounds[2])
  IN IF position \notin {<<"T","O","P">>, <<"B","O","T","T","O","M">>}
     THEN ParseError("InvalidPosition", line)
     ELSE IF ~size.ok
     THEN ParseError("InvalidSize", line)
     ELSE IF Len(bounds) # 2 \/ ~start_sec.ok \/ ~end_sec.ok
     THEN ParseError("InvalidTimeRange", line)
     ELSE [kind |-> "subtitle",
           subtitle |-> [msg |-> msg,
                         color |-> color,
                         size |-> size.val,
                         position |-> IF position = <<"B","O","T","T","O","M">> THEN BOTTOM_CENTER ELSE TOP_CENTER,
                         start_sec |-> Some(start_sec.val),
                         end_sec |-> Some(end_sec.val)]]

(* lines 152-170: the four fields after the message *)
parse_fields(line, msg, post_msg) ==
  LET parts == Split(post_msg, ":")
      color == Strip(parts[1])
      size == ParseInt(Strip(parts[2]))
      position == Upper(Strip(parts[3]))
      time_range == Strip(parts[4])
      bounds == Split(time_range, "-")
      start_sec == ParseInt(bounds[1])
      end_sec == ParseInt(bounds[2])
  IN IF ~size.ok
     THEN ParseError("InvalidSize", line)
     ELSE IF position \notin {<<"T","O","P">>, <<"B","O","T","T","O","M">>}
     THEN ParseError("InvalidPosition", line)
     ELSE IF Len(bounds) # 2 \/ ~start_sec.ok \/ ~end_sec.ok
     THEN ParseError("InvalidTimeRange", line)
     ELSE [kind |-> "subtitle",
           subtitle |-> [msg |-> msg,
                         color |-> color,
                         size |-> size.val,
                         position |-> IF position = <<"B","O","T","T","O","M">> THEN BOTTOM_CENTER ELSE TOP_CENTER,
                         start_sec |-> Some(start_sec.val),
                         end_sec |-> Some(end_sec.val)]]

(* lines 122-173 *)
parse_line(raw) ==
  LET line == Strip(raw)
      first == first_quote_index(line)
      last == last_quote_index(line)
      msg == Slice(line, first + 1, last)
      pre_msg == Strip(Slice(line, 0, first))
      post_msg == Strip(Slice(line, last + 1, Len(line)))
      rest == Strip(Tail(post_msg))
  IN IF line = << >> \/ StartsWith(line, "#")
     THEN [kind |-> "skip"]
     ELSE IF first = -1 \/ last = -1 \/ first = last
     THEN ParseError("MissingOrUnmatchedQuote", line)
     ELSE IF pre_msg # << >>
     THEN ParseError("UnexpectedPrefix", line)
     ELSE IF ~StartsWith(post_msg, ":")
     THEN ParseError("MissingFieldSeparator", line)
     ELSE IF Count(rest, ":") # 3
     THEN ParseError("WrongFieldCount", line)
     ELSE parse_fields(line, msg, rest)

----------------------------------------------------------------------------
(* Inputs *)

NL == <<"\n">>

ScriptLines ==
  { << >>,
    <<" ">>,
    <<"#"," ","'","x","'",":","r","e","d",":","4","8",":","T","O","P",":","0","-","5">>,
    <<"'","h","i","'",":","r","e","d",":","4","8",":","T","O","P",":","0","-","5">>,
    <<"\"","y","o","\"",":","g","r","e","e","n",":","7",":","b","o","t","t","o","m",":","5","-","1","0">>,
    <<"'","a","\\","'","b","'",":","b","l","u","e",":","9",":","T","o","p",":","1","-","2">>,
    <<"h","i",":","r","e","d",":","4","8",":","T","O","P",":","0","-","5">>,
    <<"'","h","i","'"," ","r","e","d",":","4","8",":","T","O","P",":","0","-","5">>,
    <<"'","h","i","'",":","r","e","d",":","b","i","g",":","L","E","F","T",":","0","-","5">>,
    <<"'","h","i","'",":","r","e","d",":","4","8",":","T","O","P",":","5">> }

RECURSIVE SeqsUpTo(_, _)
SeqsUpTo(S, n) ==
  IF n = 0 THEN {<< >>}
  ELSE LET shorter == SeqsUpTo(S, n - 1)
       IN shorter \cup {Append(f, l) : f \in {g \in shorter : Len(g) = n - 1}, l \in S}

Files == SeqsUpTo({l \o NL : l \in ScriptLines}, MaxLines)

(* one directive assembled from alternatives for each of its parts *)
Prefixes == {<< >>, <<" ">>, <<"x">>, <<"#"," ">>}

Messages == {<<"'","h","i","'">>, <<"\"","h","i","\"">>, <<"'","a","\\","'","b","'">>, <<"'","a","\\","\"","b","'">>, <<"\"","a","\\","\"","b","\"">>, <<"\"","i","t","'","s","\"">>, <<"\"","a","'","b","'","\"">>, <<"h","i">>, <<"'","h","i">>}

Separators == {<<":">>, <<" ",":"," ">>, <<" ">>}

Colors == {<<"r","e","d">>, << >>, <<" ","#","0","f"," ">>}

Sizes == {<<"4","8">>, <<"0">>, <<"-","5">>, <<"b","i","g">>, <<"+","3">>, <<" ","0","7"," ">>}

Positions == {<<"T","O","P">>, <<"b","o","t","t","o","m">>, <<"L","E","F","T">>, <<" ","T","o","p"," ">>}

Ranges == {<<":","0","-","5">>, <<":","5">>, <<":","a","-","b">>, <<":","-","5","-","1","0">>, <<":","1","0","-","5">>, << >>, <<":","0","-","5",":","x">>, <<":"," ","1"," ","-"," ","2"," ">>}

Directives ==
  {p \o m \o s \o c \o <<":">> \o z \o <<":">> \o q \o r :
     p \in Prefixes, m \in Messages, s \in Separators, c \in Colors,
     z \in Sizes, q \in Positions, r \in Ranges}

InputFilenames == {<<"i","n",".","m","p","4">>, <<"m","y"," ","c","l","i","p",".","m","o","v">>}

OutputFilenames == {None, Some(<<"o","u","t",".","m","p","4">>), Some(<<" ">>)}

----------------------------------------------------------------------------
(* The program: main() *)

Start(f) ==
  /\ file = f
  /\ idx = 0
  /\ subtitles = << >>
  /\ pc = "parse"
  /\ input_commands_arr = None
  /\ err = None
  /\ call = None
  /\ cmd_arr = None
  /\ drawtext_arr = None

Init == \E f \in Files : Start(f)

InitLine == \E l \in Directives : Start(<<l \o NL>>)

(* line 123: a blank or comment line *)
SkipLine ==
  /\ pc = "parse"
  /\ idx < Len(file)
  /\ parse_line(file[idx + 1]).kind = "skip"
  /\ idx' = idx + 1
  /\ UNCHANGED <<file, subtitles, pc, input_commands_arr, err, call, cmd_arr, drawtext_arr>>

(* line 170 *)
AcceptLine ==
  /\ pc = "parse"
  /\ idx < Len(file)
  /\ parse_line(file[idx + 1]).kind = "subtitle"
  /\ subtitles' = Append(subtitles, parse_line(file[idx + 1]).subtitle)
  /\ idx' = idx + 1
  /\ UNCHANGED <<file, pc, input_commands_arr, err, call, cmd_arr, drawtext_arr>>

RejectLineAndGoOn ==
  /\ pc = "parse"
  /\ idx < Len(file)
  /\ parse_line(file[idx + 1]).kind = "error"
  /\ idx' = idx + 1
  /\ UNCHANGED <<file, subtitles, pc, input_commands_arr, err, call, cmd_arr, drawtext_arr>>

(* lines 172-173, then main()'s handler at 234-236 *)
RejectLine ==
  /\ pc = "parse"
  /\ idx < Len(file)
  /\ parse_line(file[idx + 1]).kind = "error"
  /\ err' = Some([rule |-> parse_line(file[idx + 1]).rule,
                  line |-> parse_line(file[idx + 1]).line])
  /\ idx' = idx + 1
  /\ pc' = "failed"
  /\ UNCHANGED <<file, subtitles, input_commands_arr, call, cmd_arr, drawtext_arr>>

(* line 175 *)
ParseReturn ==
  /\ pc = "parse"
  /\ idx = Len(file)
  /\ input_commands_arr' = Some(subtitles)
  /\ pc' = "assemble"
  /\ UNCHANGED <<file, idx, subtitles, err, call, cmd_arr, drawtext_arr>>

(* line 224 *)
MakeFullCmdArr ==
  /\ pc = "assemble"
  /\ \E input_filename \in InputFilenames, output_filename \in OutputFilenames,
        overwrite_outputfile \in BOOLEAN :
       LET r == make_full_cmd_arr(input_filename, output_filename,
                                  input_commands_arr[1], overwrite_outputfile)
       IN /\ call' = Some([input_filename |-> input_filename,
                           output_filename |-> output_filename,
                           overwrite_outputfile |-> overwrite_outputfile])
          /\ IF r.ok
             THEN cmd_arr' = Some(r.val) /\ pc' = "run" /\ err' = err
             ELSE cmd_arr' = cmd_arr /\ pc' = "failed" /\ err' = Some([rule |-> r.val, line |-> << >>])
  /\ UNCHANGED <<file, idx, subtitles, input_commands_arr, drawtext_arr>>

(* lines 227-231 *)
RunCmd ==
  /\ pc = "run"
  /\ drawtext_arr' = Some(make_drawtext_array(input_commands_arr[1]).val)
  /\ pc' = "done"
  /\ UNCHANGED <<file, idx, subtitles, input_commands_arr, err, call, cmd_arr>>

Next ==
  \/ SkipLine
  \/ AcceptLine
  \/ RejectLine
  \/ ParseReturn
  \/ MakeFullCmdArr
  \/ RunCmd

Spec == Init /\ [][Next]_vars

SpecLine == InitLine /\ [][Next]_vars

----------------------------------------------------------------------------
(* The line format, stated rule by rule and independently of the order in  *)
(* which parse_cmd_file tests the rules.  L is a line without its          *)
(* surrounding whitespace, q the quote character delimiting the message.   *)

Blank(raw) == \A i \in DOMAIN raw : raw[i] \in Whitespace

Comment(raw) ==
  \E i \in DOMAIN raw : raw[i] = "#" /\ \A j \in 1..(i - 1) : raw[j] \in Whitespace

Skipped(raw) == Blank(raw) \/ Comment(raw)

SingleFirst(L) == IF "'" \in Range(L) THEN "'" ELSE "\""

FirstSeen(L) ==
  LET at == {i \in DOMAIN L : L[i] \in {"'", "\""}}
  IN IF at = {} THEN "'" ELSE L[Min(at)]

Nth(S, n) == CHOOSE x \in S : Cardinality({y \in S : y < x}) = n - 1

QuotesAt(L, q) == {i \in DOMAIN L : L[i] = q}

Between(L, q) == SubSeq(L, Min(QuotesAt(L, q)) + 1, Max(QuotesAt(L, q)) - 1)

Before(L, q) == SubSeq(L, 1, Min(QuotesAt(L, q)) - 1)

After(L, q) == SubSeq(L, Max(QuotesAt(L, q)) + 1, Len(L))

Visible(s) == {i \in DOMAIN s : s[i] \notin Whitespace}

AfterSeparator(L, q) == SubSeq(After(L, q), Min(Visible(After(L, q))) + 1, Len(After(L, q)))

ColonsAt(s) == {i \in DOMAIN s : s[i] = ":"}

Field(L, q, n) ==
  LET t == AfterSeparator(L, q)
      from == IF n = 1 THEN 1 ELSE Nth(ColonsAt(t), n - 1) + 1
      to == IF n = 4 THEN Len(t) ELSE Nth(ColonsAt(t), n) - 1
  IN SubSeq(t, from, to)

NoQuotes(L, q) == Cardinality(QuotesAt(L, q)) < 2

HasPrefix(L, q) == ~NoQuotes(L, q) /\ Visible(Before(L, q)) # {}

NoSeparator(L, q) ==
  /\ ~NoQuotes(L, q)
  /\ \/ Visible(After(L, q)) = {}
     \/ After(L, q)[Min(Visible(After(L, q)))] # ":"

Framed(L, q) == ~NoQuotes(L, q) /\ ~NoSeparator(L, q)

BadFieldCount(L, q) == Framed(L, q) /\ Cardinality(ColonsAt(AfterSeparator(L, q))) # 3

Fielded(L, q) == Framed(L, q) /\ ~BadFieldCount(L, q)

BadSize(L, q) == Fielded(L, q) /\ ~ParseInt(Field(L, q, 2)).ok

BadPosition(L, q) == Fielded(L, q) /\ Upper(Strip(Field(L, q, 3))) \notin {<<"T","O","P">>, <<"B","O","T","T","O","M">>}

BadTimeRange(L, q) ==
  /\ Fielded(L, q)
  /\ LET r == Strip(Field(L, q, 4))
         dash == {i \in DOMAIN r : r[i] = "-"}
     IN \/ Cardinality(dash) # 1
        \/ ~ParseInt(SubSeq(r, 1, Min(dash) - 1)).ok
        \/ ~ParseInt(SubSeq(r, Min(dash) + 1, Len(r))).ok

RuleOrder ==
  <<"MissingOrUnmatchedQuote", "UnexpectedPrefix", "MissingFieldSeparator",
    "WrongFieldCount", "InvalidSize", "InvalidPosition", "InvalidTimeRange">>

Violates(L, q, rule) ==
  CASE rule = "MissingOrUnmatchedQuote" -> NoQuotes(L, q)
    [] rule = "UnexpectedPrefix" -> HasPrefix(L, q)
    [] rule = "MissingFieldSeparator" -> NoSeparator(L, q)
    [] rule = "WrongFieldCount" -> BadFieldCount(L, q)
    [] rule = "InvalidSize" -> BadSize(L, q)
    [] rule = "InvalidPosition" -> BadPosition(L, q)
    [] rule = "InvalidTimeRange" -> BadTimeRange(L, q)

Violated(L, q) == {n \in DOMAIN RuleOrder : Violates(L, q, RuleOrder[n])}

FirstViolated(L, q) == RuleOrder[Min(Violated(L, q))]

(* the lines of the file that are neither blank nor comments, in file order *)
Directive == SelectSeq(file, LAMBDA raw : ~Skipped(raw))

Offending(k) ==
  ~Skipped(file[k]) /\ Violated(Strip(file[k]), SingleFirst(Strip(file[k]))) # {}

Offenders == {k \in DOMAIN file : Offending(k)}

ParseFailed == pc = "failed" /\ input_commands_arr = None

IsSubstring(sub, s) ==
  \E i \in 0..(Len(s) - Len(sub)) : SubSeq(s, i + 1, i + Len(sub)) = sub

EndsWith(s, suffix) ==
  Len(suffix) <= Len(s) /\ SubSeq(s, Len(s) - Len(suffix) + 1, Len(s)) = suffix

----------------------------------------------------------------------------
(* C1: parsing is fail-fast and all-or-nothing.  When some directive of    *)
(* the file violates a rule, parse_cmd_file never returns a caption        *)
(* sequence and no command is built; the failure raised is the one of the  *)
(* first offending line in file order, and no line after it is read.       *)
C1_FailFast ==
  Offenders # {} =>
    /\ input_commands_arr = None
    /\ cmd_arr = None
    /\ pc \in {"parse", "failed"}
    /\ idx <= Min(Offenders)
    /\ (pc = "failed") = (idx = Min(Offenders))
    /\ pc = "failed" =>
         err = Some([rule |-> FirstViolated(Strip(file[idx]), SingleFirst(Strip(file[idx]))),
                     line |-> Strip(file[idx])])

(* a failure after a caption was already collected and before the last line *)
C1_Witness ==
  /\ ParseFailed
  /\ Len(subtitles) > 0
  /\ idx < Len(file)
  /\ ~Skipped(file[idx + 1])

----------------------------------------------------------------------------
(* C2: order and count are preserved.  For a file all of whose directives  *)
(* are valid, parse_cmd_file returns one caption per directive in file     *)
(* order, and the filter expression is the stages of those directives, in  *)
(* that order, with one comma between neighbours.                          *)
StageOf(raw) == stage(parse_line(raw).subtitle).val

RECURSIVE StagesUpTo(_)
StagesUpTo(k) ==
  IF k = 0 THEN << >>
  ELSE StagesUpTo(k - 1) \o (IF k > 1 THEN <<",">> ELSE << >>) \o StageOf(Directive[k])

C2_OrderPreserved ==
  Offenders = {} =>
    /\ input_commands_arr # None =>
         /\ Len(input_commands_arr[1]) = Len(Directive)
         /\ \A i \in DOMAIN Directive :
              input_commands_arr[1][i] = parse_line(Directive[i]).subtitle
    /\ cmd_arr # None =>
         /\ Cardinality({i \in DOMAIN cmd_arr[1] : cmd_arr[1][i] = <<"-","v","f">>}) = 1
         /\ \A i \in DOMAIN cmd_arr[1] :
              cmd_arr[1][i] = <<"-","v","f">> =>
                cmd_arr[1][i + 1] = <<"\"">> \o StagesUpTo(Len(Directive)) \o <<"\"">>
    /\ drawtext_arr # None =>
         /\ Len(drawtext_arr[1]) = Len(Directive)
         /\ \A i \in DOMAIN Directive : drawtext_arr[1][i] = StageOf(Directive[i])

(* two different captions with a skipped line somewhere in the file *)
C2_Witness ==
  /\ pc = "done"
  /\ Len(drawtext_arr[1]) >= 2
  /\ drawtext_arr[1][1] # drawtext_arr[1][2]
  /\ Len(file) > Len(Directive)

----------------------------------------------------------------------------
(* C3: make_full_cmd_arr returns one of two argv shapes.  Without an       *)
(* output path: ffplay, -i, input, -vf, quoted filter, and nothing else,   *)
(* whatever overwrite is.  With an output path: ffmpeg, then -y exactly    *)
(* when overwrite is set, then -i, input, -vf, quoted filter, -codec:a,    *)
(* copy, and the output path last.  The filter is one element in one pair  *)
(* of double quotes.                                                       *)
Quoted(arg) ==
  /\ Len(arg) >= 2
  /\ arg[1] = "\""
  /\ arg[Len(arg)] = "\""
  /\ SubSeq(arg, 2, Len(arg) - 1) = make_drawtext_array_string(input_commands_arr[1]).val

C3_ArgvShape ==
  cmd_arr # None =>
    LET argv == cmd_arr[1]
        a == call[1]
        o == IF a.overwrite_outputfile THEN 1 ELSE 0
    IN IF a.output_filename = None
       THEN /\ Len(argv) = 5
            /\ argv[1] = <<"f","f","p","l","a","y">>
            /\ argv[2] = <<"-","i">>
            /\ argv[3] = a.input_filename
            /\ argv[4] = <<"-","v","f">>
            /\ Quoted(argv[5])
       ELSE /\ Len(argv) = 8 + o
            /\ argv[1] = <<"f","f","m","p","e","g">>
            /\ a.overwrite_outputfile => argv[2] = <<"-","y">>
            /\ ~a.overwrite_outputfile => \A i \in DOMAIN argv : argv[i] # <<"-","y">>
            /\ argv[2 + o] = <<"-","i">>
            /\ argv[3 + o] = a.input_filename
            /\ argv[4 + o] = <<"-","v","f">>
            /\ Quoted(argv[5 + o])
            /\ argv[6 + o] = <<"-","c","o","d","e","c",":","a">>
            /\ argv[7 + o] = <<"c","o","p","y">>
            /\ argv[8 + o] = a.output_filename[1]

(* a preview command requested with overwrite set *)
C3_Witness ==
  /\ cmd_arr # None
  /\ call[1].output_filename = None
  /\ call[1].overwrite_outputfile
  /\ Len(input_commands_arr[1]) >= 2

----------------------------------------------------------------------------
(* C4: a file of blank and comment lines only parses without error to the  *)
(* empty caption sequence, and building from it fails with "No arguments   *)
(* passed": make_full_cmd_arr returns no argument list, with or without an *)
(* output path.                                                            *)
C4_OnlyComments ==
  (\A k \in DOMAIN file : Skipped(file[k])) =>
    /\ subtitles = << >>
    /\ pc = "parse" => err = None
    /\ pc # "parse" => input_commands_arr = Some(<< >>)
    /\ cmd_arr = None
    /\ pc \in {"parse", "assemble", "failed"}
    /\ call # None =>
         /\ pc = "failed"
         /\ err = Some([rule |-> "No arguments passed", line |-> << >>])

(* a conversion refused for a file holding a comment with quotes and colons *)
C4_Witness ==
  /\ pc = "failed"
  /\ input_commands_arr = Some(<< >>)
  /\ call # None
  /\ call[1].output_filename # None
  /\ \E k \in DOMAIN file : Comment(file[k]) /\ "'" \in Range(file[k]) /\ ":" \in Range(file[k])
  /\ \E k \in DOMAIN file : Blank(file[k])

----------------------------------------------------------------------------
(* C5: a malformed directive fails with the first rule it violates, in the *)
(* order MissingOrUnmatchedQuote, UnexpectedPrefix, MissingFieldSeparator, *)
(* WrongFieldCount, InvalidSize, InvalidPosition, InvalidTimeRange, and    *)
(* the failure carries the text of the line.                               *)
C5_FirstRule ==
  /\ \A k \in 1..idx :
       Offending(k) =>
         /\ k = idx
         /\ err = Some([rule |-> FirstViolated(Strip(file[k]), SingleFirst(Strip(file[k]))),
                        line |-> Strip(file[k])])
  /\ ParseFailed => Offending(idx)

(* a line with a bad size and a bad position reports the size *)
C5_Witness ==
  /\ ParseFailed
  /\ err[1].rule = "InvalidSize"
  /\ BadPosition(Strip(file[idx]), SingleFirst(Strip(file[idx])))
  /\ BadTimeRange(Strip(file[idx]), SingleFirst(Strip(file[idx])))

----------------------------------------------------------------------------
(* C6: the message of a caption is the text between the first and the last *)
(* quote with backslash-quote sequences replaced by the quote character.   *)
RECURSIVE Unescape(_)
Unescape(s) ==
  IF Len(s) < 2 THEN s
  ELSE IF s[1] = "\\" /\ s[2] \in {"'", "\""}
  THEN <<s[2]>> \o Unescape(SubSeq(s, 3, Len(s)))
  ELSE <<s[1]>> \o Unescape(Tail(s))

C6_Unescaped ==
  \A i \in DOMAIN subtitles :
    subtitles[i].msg = Unescape(Between(Strip(Directive[i]), SingleFirst(Strip(Directive[i]))))

----------------------------------------------------------------------------
(* C7 as stated: the first quote character on the line decides the         *)
(* delimiter.  A line whose first quote character is a double quote and    *)
(* that is valid when read with double quotes is accepted, with the text   *)
(* between its first and last double quote as the message.                 *)
C7_FirstSeenWins ==
  \A k \in 1..idx :
    LET L == Strip(file[k])
    IN (~Skipped(file[k]) /\ FirstSeen(L) = "\"" /\ Violated(L, "\"") = {}) =>
         /\ err = None
         /\ Len(subtitles) = 1
         /\ subtitles[1].msg = Between(L, "\"")

(* C7 amended: the delimiter is the single quote whenever a single quote   *)
(* occurs anywhere on the line, and the double quote otherwise.  A line    *)
(* whose first quote character is a double quote, that has no single quote *)
(* and is valid when read with double quotes is accepted, with the text    *)
(* between its first and last double quote as the message; when a single   *)
(* quote occurs after the opening double quote the line is rejected, with  *)
(* MissingOrUnmatchedQuote if it is the only single quote and with         *)
(* UnexpectedPrefix otherwise.                                             *)
C7_SingleQuoteWins ==
  \A k \in 1..idx :
    LET L == Strip(file[k])
        singles == Cardinality(QuotesAt(L, "'"))
    IN (~Skipped(file[k]) /\ FirstSeen(L) = "\"") =>
         /\ (singles = 0 /\ Violated(L, "\"") = {}) =>
              /\ err = None
              /\ Len(subtitles) = 1
              /\ subtitles[1].msg = Between(L, "\"")
         /\ singles = 1 =>
              err = Some([rule |-> "MissingOrUnmatchedQuote", line |-> L])
         /\ singles > 1 =>
              err = Some([rule |-> "UnexpectedPrefix", line |-> L])

(* an apostrophe inside an otherwise valid double-quoted message *)
C7_Witness ==
  /\ idx = 1
  /\ FirstSeen(Strip(file[1])) = "\""
  /\ Cardinality(QuotesAt(Strip(file[1]), "'")) = 1
  /\ Violated(Strip(file[1]), "\"") = {}
  /\ ParseFailed

----------------------------------------------------------------------------
(* C8: every caption has a positive size.                                  *)
C8_PositiveSize == \A i \in DOMAIN subtitles : subtitles[i].size > 0

----------------------------------------------------------------------------
(* C9: every caption has a non-empty color, the color field of its line    *)
(* without surrounding whitespace.                                         *)
C9_NonEmptyColor ==
  \A i \in DOMAIN subtitles :
    /\ subtitles[i].color = Strip(Field(Strip(Directive[i]), SingleFirst(Strip(Directive[i])), 1))
    /\ subtitles[i].color # << >>

----------------------------------------------------------------------------
(* C10: building never fails on captions that came from the parser, and    *)
(* each stage carries its caption's fields: fontcolor= the color,          *)
(* fontsize= the size, y=40 for a TOP line and y=h-th-40 for a BOTTOM line *)
(* in any letter case, and the enable='between(t,start,end)' clause last.  *)
C10_StageCarriesFields ==
  /\ (input_commands_arr # None /\ input_commands_arr[1] # << >> /\ call # None) =>
       /\ pc \in {"run", "done"}
       /\ err = None
       /\ cmd_arr # None
  /\ drawtext_arr # None =>
       /\ Len(drawtext_arr[1]) = Len(Directive)
       /\ \A i \in DOMAIN drawtext_arr[1] :
            LET s == drawtext_arr[1][i]
                el == input_commands_arr[1][i]
                L == Strip(Directive[i])
                position == Upper(Strip(Field(L, SingleFirst(L), 3)))
            IN /\ IsSubstring(<<"f","o","n","t","c","o","l","o","r","=">> \o el.color, s)
               /\ IsSubstring(<<"f","o","n","t","s","i","z","e","=">> \o FormatD(el.size), s)
               /\ position = <<"T","O","P">> => IsSubstring(<<":","y","=","4","0",":">>, s)
               /\ position = <<"B","O","T","T","O","M">> => IsSubstring(<<":","y","=","h","-","t","h","-","4","0",":">>, s)
               /\ position \in {<<"T","O","P">>, <<"B","O","T","T","O","M">>}
               /\ EndsWith(s, <<":","e","n","a","b","l","e","=","'","b","e","t","w","e","e","n","(","t",",">> \o FormatD(el.start_sec[1]) \o <<",">>
                                \o FormatD(el.end_sec[1]) \o <<")","'">>)

(* a stage built from a line that spells BOTTOM in lower case *)
C10_Witness ==
  /\ pc = "done"
  /\ Len(drawtext_arr[1]) = 1
  /\ input_commands_arr[1][1].position = BOTTOM_CENTER
  /\ IsSubstring(<<"b","o","t","t","o","m">>, Strip(file[1]))
  /\ input_commands_arr[1][1].start_sec[1] > input_commands_arr[1][1].end_sec[1]

====
